---- MODULE Spec2Model ----
(***************************************************************************)
(* A model of ccwc.py: the CCWC counting engine (count_bytes, count_lines, *)
(* count_words, count_chars, count_all over a chunked byte stream) and the *)
(* application loop produce_count_result that drives it over a list of     *)
(* file names.                                                             *)
(*                                                                         *)
(* Bytes are the integers 0..255, a byte string is a sequence of them, a   *)
(* decoded string is a sequence of code points.                            *)
(***************************************************************************)
EXTENDS Integers, Sequences, FiniteSets, TLC

\* ------------------------------------------------------------------ bounds
\* Longest generated input, in bytes.
MaxLen == 3
\* Chunk sizes 1..MaxChunk are tried besides 0, 7 and 4096.
MaxChunk == 2
\* A read fault is injected at read call 1..MaxFail of an operation.
MaxFail == 2
\* Longest list of file names on the command line.
MaxFiles == 2

\* CCWC.DEFAULT_BUFFER_SIZE = 64 * 1024
DEFAULT_BUFFER_SIZE == 65536

\* ------------------------------------------------------- bytes and strings
\* bytes.isspace / bytes.split(): ASCII whitespace " \t\n\r\x0b\f".
ByteSpace == {9, 10, 11, 12, 13, 32}

\* str.isspace / str.split(): the Unicode whitespace code points.
StrSpace == (9..13) \cup (28..32) \cup {133, 160, 5760} \cup (8192..8202)
              \cup {8232, 8233, 8239, 8287, 12288}

Min(S) == CHOOSE x \in S : \A y \in S : x <= y

\* chunk.count(b'\n'): the number of positions holding byte b.
count(s, b) == Cardinality({i \in 1..Len(s) : s[i] = b})

\* The end of the token that starts at i: the first later position that is
\* past the end or holds whitespace.
TokenEnd(s, ws, i) ==
    CHOOSE j \in (i + 1)..(Len(s) + 1) :
        /\ (j = Len(s) + 1 \/ s[j] \in ws)
        /\ \A k \in (i + 1)..(j - 1) : s[k] \notin ws

\* len(s.split()): skip whitespace, take a token, count it, repeat.
RECURSIVE split_scan(_, _, _, _)
split_scan(s, ws, i, n) ==
    IF i > Len(s) THEN n
    ELSE IF s[i] \in ws THEN split_scan(s, ws, i + 1, n)
    ELSE split_scan(s, ws, TokenEnd(s, ws, i), n + 1)

split_len(s, ws) == split_scan(s, ws, 1, 0)

\* b.isspace(): non-empty and every byte is whitespace.
isspace(s) == s # <<>> /\ \A i \in 1..Len(s) : s[i] \in ByteSpace

\* ------------------------------------------------------------------ codecs
\* The encodings of the codec registry the model carries: utf-8 (the
\* default) with a buffering decoder, latin-1 with a stateless one, utf-16
\* with one that raises on a stream without a byte order mark.
KnownEncodings == {"utf-8", "latin-1", "utf-16"}

\* codecs.getincrementaldecoder(encoding) raises LookupError.
UnknownEncoding(encoding) == encoding \notin KnownEncodings

IsCont(b) == b >= 128 /\ b <= 191

\* The length of the UTF-8 sequence a lead byte announces; 0 for a byte that
\* cannot start one (0x80..0xC1, 0xF5..0xFF).
SeqLen(b) ==
    IF b < 128 THEN 1
    ELSE IF b < 194 THEN 0
    ELSE IF b < 224 THEN 2
    ELSE IF b < 240 THEN 3
    ELSE IF b < 245 THEN 4
    ELSE 0

\* Whether b is acceptable as byte number k (k >= 2) after the lead byte.
ContOk(lead, k, b) ==
    /\ IsCont(b)
    /\ (k = 2 /\ lead = 224) => b >= 160
    /\ (k = 2 /\ lead = 237) => b <= 159
    /\ (k = 2 /\ lead = 240) => b >= 144
    /\ (k = 2 /\ lead = 244) => b <= 143

CodePoint(s, i, n) ==
    IF n = 1 THEN s[i]
    ELSE IF n = 2 THEN (s[i] - 192) * 64 + (s[i + 1] - 128)
    ELSE IF n = 3 THEN (s[i] - 224) * 4096 + (s[i + 1] - 128) * 64 + (s[i + 2] - 128)
    ELSE (s[i] - 240) * 262144 + (s[i + 1] - 128) * 4096
           + (s[i + 2] - 128) * 64 + (s[i + 3] - 128)

\* What the error handler adds to the output for one malformed sequence:
\* U+FFFD under 'replace', nothing under 'ignore'.
OnError(out, errors) ==
    IF errors = "replace" THEN Append(out, 65533) ELSE out

\* codecs.utf_8_decode(s, errors, final) -> (text, consumed). A malformed
\* sequence is the longest prefix that could still start a character; a
\* truncated sequence at the end is kept back unless final.
RECURSIVE utf8_scan(_, _, _, _, _)
utf8_scan(s, errors, final, i, out) ==
    IF i > Len(s) THEN [text |-> out, consumed |-> Len(s)]
    ELSE
      LET n     == SeqLen(s[i])
          avail == Len(s) - i + 1
          m     == IF n < avail THEN n ELSE avail
          bad   == {k \in 2..m : ~ContOk(s[i], k, s[i + k - 1])}
      IN  IF n = 0
            THEN utf8_scan(s, errors, final, i + 1, OnError(out, errors))
          ELSE IF bad # {}
            THEN utf8_scan(s, errors, final, i + Min(bad) - 1, OnError(out, errors))
          ELSE IF avail < n
            THEN IF final
                   THEN [text |-> OnError(out, errors), consumed |-> Len(s)]
                   ELSE [text |-> out, consumed |-> i - 1]
          ELSE utf8_scan(s, errors, final, i + n, Append(out, CodePoint(s, i, n)))

utf_8_decode(s, errors, final) == utf8_scan(s, errors, final, 1, <<>>)

\* bytes.decode(encoding, ...) raises LookupError: the codec is looked up
\* only when there is something to decode (b''.decode of any name is '').
decode_raises(s, encoding) == s # <<>> /\ UnknownEncoding(encoding)

\* UTF-16: the code unit at i, little- or big-endian.
Unit(s, i, be) == IF be THEN s[i] * 256 + s[i + 1] ELSE s[i + 1] * 256 + s[i]

IsHighSurrogate(u) == u >= 55296 /\ u <= 56319
IsLowSurrogate(u) == u >= 56320 /\ u <= 57343

\* The UTF-16 decoder from position i on: a lone low surrogate and a high
\* surrogate without its low one are malformed (two bytes each); a trailing
\* odd byte, or a high surrogate the data ends after, is kept back unless
\* final, and is then one malformed sequence up to the end.
RECURSIVE utf16_scan(_, _, _, _, _, _)
utf16_scan(s, errors, final, be, i, out) ==
    LET rem == Len(s) - i + 1
    IN  IF rem <= 0 THEN [text |-> out, consumed |-> Len(s)]
        ELSE IF rem = 1 \/ (IsHighSurrogate(Unit(s, i, be)) /\ rem < 4)
          THEN IF final
                 THEN [text |-> OnError(out, errors), consumed |-> Len(s)]
                 ELSE [text |-> out, consumed |-> i - 1]
        ELSE LET u == Unit(s, i, be)
             IN  IF IsLowSurrogate(u)
                   THEN utf16_scan(s, errors, final, be, i + 2, OnError(out, errors))
                 ELSE IF ~IsHighSurrogate(u)
                   THEN utf16_scan(s, errors, final, be, i + 2, Append(out, u))
                 ELSE IF IsLowSurrogate(Unit(s, i + 2, be))
                   THEN utf16_scan(s, errors, final, be, i + 4,
                                   Append(out, 65536 + (u - 55296) * 1024
                                                 + (Unit(s, i + 2, be) - 56320)))
                 ELSE utf16_scan(s, errors, final, be, i + 2, OnError(out, errors))

\* The byte order a leading byte order mark announces: FF FE little-endian
\* (-1), FE FF big-endian (1), 0 without one.
ByteOrderMark(s) ==
    IF Len(s) < 2 THEN 0
    ELSE IF s[1] = 255 /\ s[2] = 254 THEN -1
    ELSE IF s[1] = 254 /\ s[2] = 255 THEN 1
    ELSE 0

\* codecs.utf_16_ex_decode(s, errors, 0, final) -> (text, consumed,
\* byteorder): a byte order mark is skipped; without one the byte order is
\* the machine's, little-endian, and byteorder stays 0.
utf_16_ex_decode(s, errors, final) ==
    [scan |-> utf16_scan(s, errors, final, ByteOrderMark(s) = 1,
                         IF ByteOrderMark(s) = 0 THEN 1 ELSE 3, <<>>),
     byteorder |-> ByteOrderMark(s)]

\* bytes.decode(encoding, errors): the empty bytes object decodes to ''
\* without the codec being looked up; latin-1 maps each byte to the code
\* point of the same number.
decode(s, encoding, errors) ==
    IF s = <<>> THEN <<>>
    ELSE CASE encoding = "utf-8"   -> utf_8_decode(s, errors, TRUE).text
           [] encoding = "utf-16"  -> utf_16_ex_decode(s, errors, TRUE).scan.text
           [] encoding = "latin-1" -> s

\* codecs.getincrementaldecoder(encoding)(errors = 'replace'): the bytes
\* kept back, and for utf-16 the byte order once a BOM has settled it.
NewDecoder == [buffer |-> <<>>, byteorder |-> 0]

\* decoder.decode of a decoder that keeps nothing back: every chunk is
\* decoded as if it were the last.
decoder_decode_unbuffered(encoding, decoder, chunk, final) ==
    [raised |-> FALSE,
     text |-> decode(chunk, encoding, "replace"),
     decoder |-> NewDecoder]

\* What a buffered decoder returns and keeps of data, given the scan r of
\* it: the text, and data[consumed:] as the new buffer.
buffered(data, r, byteorder, raised) ==
    [raised |-> raised, text |-> r.text,
     decoder |-> [buffer |-> SubSeq(data, r.consumed + 1, Len(data)),
                  byteorder |-> byteorder]]

\* The utf-16 decoder before the byte order is settled: it raises
\* UnicodeError ("UTF-16 stream does not start with BOM") when it has
\* consumed two bytes or more and found no BOM.
utf_16_buffer_decode(data, r) ==
    buffered(data, r.scan, r.byteorder, r.byteorder = 0 /\ r.scan.consumed >= 2)

\* decoder.decode(chunk, final) with errors = 'replace'. The utf-8 and
\* utf-16 decoders are buffered (data = buffer + chunk), latin-1 is
\* stateless.
decoder_decode(encoding, decoder, chunk, final) ==
    CASE encoding = "utf-8" ->
           buffered(decoder.buffer \o chunk,
                    utf_8_decode(decoder.buffer \o chunk, "replace", final),
                    decoder.byteorder, FALSE)
      [] encoding = "utf-16" /\ decoder.byteorder = 0 ->
           utf_16_buffer_decode(decoder.buffer \o chunk,
                                utf_16_ex_decode(decoder.buffer \o chunk, "replace", final))
      [] encoding = "utf-16" /\ decoder.byteorder # 0 ->
           buffered(decoder.buffer \o chunk,
                    utf16_scan(decoder.buffer \o chunk, "replace", final,
                               decoder.byteorder = 1, 1, <<>>),
                    decoder.byteorder, FALSE)
      [] encoding = "latin-1" ->
           [raised |-> FALSE, text |-> chunk, decoder |-> decoder]

\* str(b) of a bytes object: its repr, b'...' with escapes.
HexDigit(d) == IF d < 10 THEN 48 + d ELSE 87 + d

ReprQuote(s) ==
    IF (\E i \in 1..Len(s) : s[i] = 39) /\ ~(\E i \in 1..Len(s) : s[i] = 34)
      THEN 34 ELSE 39

ReprByte(c, quote) ==
    IF c = quote \/ c = 92 THEN <<92, c>>
    ELSE IF c = 9 THEN <<92, 116>>
    ELSE IF c = 10 THEN <<92, 110>>
    ELSE IF c = 13 THEN <<92, 114>>
    ELSE IF c < 32 \/ c >= 127 THEN <<92, 120, HexDigit(c \div 16), HexDigit(c % 16)>>
    ELSE <<c>>

RECURSIVE ReprBody(_, _, _)
ReprBody(s, quote, i) ==
    IF i > Len(s) THEN <<>> ELSE ReprByte(s[i], quote) \o ReprBody(s, quote, i + 1)

str(s) == LET q == ReprQuote(s) IN <<98, q>> \o ReprBody(s, q, 1) \o <<q>>

\* ------------------------------------------------------------ file objects
\* A binary stream: its bytes, the read position, the number of read calls
\* made on it, and the read call that raises OSError (0: none; sticky: every
\* later call raises too).
\*   kind "regular": os.fstat works and says S_ISREG; seekable
\*   kind "pipe":    os.fstat works, not a regular file; seek raises
\*   kind "nostat":  fileno()/fstat raises OSError or AttributeError; seekable
FileKinds == {"regular", "pipe", "nostat"}

File(data, kind, failAt, sticky) ==
    [data |-> data, kind |-> kind, failAt |-> failAt, sticky |-> sticky,
     pos |-> 0, reads |-> 0]

ReadFails(f) ==
    /\ f.failAt > 0
    /\ \/ f.reads + 1 = f.failAt
       \/ f.sticky /\ f.reads + 1 > f.failAt

\* file.read(n); n = -1 stands for file.read().
read(f, n) ==
    IF ReadFails(f)
      THEN [raised |-> TRUE, chunk |-> <<>>, file |-> [f EXCEPT !.reads = @ + 1]]
      ELSE LET avail == Len(f.data) - f.pos
               m     == IF n < 0 \/ n > avail THEN avail ELSE n
           IN  [raised |-> FALSE,
                chunk  |-> SubSeq(f.data, f.pos + 1, f.pos + m),
                file   |-> [f EXCEPT !.reads = @ + 1, !.pos = @ + m]]

\* file.seek(0)
seek0(f) ==
    IF f.kind = "pipe" THEN [raised |-> TRUE, file |-> f]
    ELSE [raised |-> FALSE, file |-> [f EXCEPT !.pos = 0]]

\* os.fstat(fd).st_size of a regular file.
st_size(f) == Len(f.data)

\* CCWC._read_chunks: the chunks the generator yields until a read returns
\* nothing or raises.
RECURSIVE read_chunks(_, _, _)
read_chunks(f, n, acc) ==
    LET r == read(f, n)
    IN  IF r.raised THEN [raised |-> TRUE, chunks |-> acc, file |-> r.file]
        ELSE IF r.chunk = <<>> THEN [raised |-> FALSE, chunks |-> acc, file |-> r.file]
        ELSE read_chunks(r.file, n, Append(acc, r.chunk))

\* ------------------------------------------------------- CCWC, the engine
\* How a call ends:
\*   "return"  a count comes back (value, or totals for count_all)
\*   "None"    the call falls off its end and returns None
\*   "OSError", "UnboundLocalError"  the exception leaves the call
\*   "SystemExit"  sys.exit(1)
\* errs is the number of "Unknown encoding" messages printed, file the
\* stream as the call leaves it.
ZeroTotals == [lines |-> 0, words |-> 0, chars |-> 0, bytes |-> 0]

Return(v, f, errs) ==
    [outcome |-> "return", value |-> v, totals |-> ZeroTotals, errs |-> errs, file |-> f]

ReturnTotals(t, f) ==
    [outcome |-> "return", value |-> 0, totals |-> t, errs |-> 0, file |-> f]

Raise(exc, f, errs) ==
    [outcome |-> exc, value |-> 0, totals |-> ZeroTotals, errs |-> errs, file |-> f]

CCWC(buffer_size, encoding) == [buffer_size |-> buffer_size, encoding |-> encoding]

\* sum_len with the slip "total += 1": the chunks are counted, not their bytes.
sum_len_chunks(chunks, i) == Len(chunks) - i + 1

\* total += len(chunk) over the chunks.
RECURSIVE sum_len(_, _)
sum_len(chunks, i) ==
    IF i > Len(chunks) THEN 0 ELSE Len(chunks[i]) + sum_len(chunks, i + 1)

\* count_bytes, the body that reads: len(file.read()) when buffer_size is 0,
\* the sum of the chunk lengths otherwise.
bytes_stream(self, f) ==
    IF self.buffer_size = 0
      THEN LET r == read(f, -1)
           IN  IF r.raised THEN Raise("OSError", r.file, 0)
               ELSE Return(Len(r.chunk), r.file, 0)
      ELSE LET d == read_chunks(f, self.buffer_size, <<>>)
           IN  IF d.raised THEN Raise("OSError", d.file, 0)
               ELSE Return(sum_len(d.chunks, 1), d.file, 0)

\* CCWC.count_bytes: st_size for a regular file; otherwise the stream is
\* read inside the try, so an OSError of that read lands in the same except
\* clause as a failed fstat and the stream is read again from where it is.
count_bytes(self, f) ==
    IF f.kind = "nostat" THEN bytes_stream(self, f)
    ELSE IF f.kind = "regular" THEN Return(st_size(f), f, 0)
    ELSE LET r == bytes_stream(self, f)
         IN  IF r.outcome = "OSError" THEN bytes_stream(self, r.file) ELSE r

\* total += chunk.count(b'\n') over the chunks.
RECURSIVE sum_lines(_, _)
sum_lines(chunks, i) ==
    IF i > Len(chunks) THEN 0 ELSE count(chunks[i], 10) + sum_lines(chunks, i + 1)

\* CCWC.count_lines
count_lines(self, f) ==
    IF self.buffer_size = 0
      THEN LET r == read(f, -1)
           IN  IF r.raised THEN Raise("OSError", r.file, 0)
               ELSE Return(count(r.chunk, 10), r.file, 0)
      ELSE LET d == read_chunks(f, self.buffer_size, <<>>)
           IN  IF d.raised THEN Raise("OSError", d.file, 0)
               ELSE Return(sum_lines(d.chunks, 1), d.file, 0)

\* chunk[0:1] and chunk[-1:]
first_byte(chunk) == IF chunk = <<>> THEN <<>> ELSE <<chunk[1]>>
last_byte(chunk) == IF chunk = <<>> THEN <<>> ELSE <<chunk[Len(chunk)]>>

\* word_step without the split-word correction.
word_step_uncorrected(total, last_char_was_space, chunk) ==
    [total |-> total + split_len(chunk, ByteSpace),
     last_char_was_space |-> isspace(last_byte(chunk))]

\* One iteration of the loop of count_words: count the chunk's tokens, take
\* one off when a word straddles the boundary, remember how the chunk ends.
word_step(total, last_char_was_space, chunk) ==
    LET counted             == total + split_len(chunk, ByteSpace)
        first_char_is_space == isspace(first_byte(chunk))
    IN  [total |-> IF ~last_char_was_space /\ ~first_char_is_space
                     THEN counted - 1 ELSE counted,
         last_char_was_space |-> isspace(last_byte(chunk))]

RECURSIVE words_loop(_, _, _, _)
words_loop(total, last_char_was_space, chunks, i) ==
    IF i > Len(chunks) THEN total
    ELSE LET st == word_step(total, last_char_was_space, chunks[i])
         IN  words_loop(st.total, st.last_char_was_space, chunks, i + 1)

\* CCWC.count_words. With buffer_size 0 the whole input is decoded with
\* errors = 'ignore' and split as a str; a LookupError is printed and leaves
\* content unbound; any other exception of the read rewinds and splits
\* str(file.read()). Otherwise the chunks are split as bytes.
count_words(self, f) ==
    IF self.buffer_size = 0
      THEN LET r == read(f, -1)
           IN  IF r.raised
                 THEN LET s == seek0(r.file)
                          again == read(s.file, -1)
                      IN  IF s.raised THEN Raise("OSError", s.file, 0)
                          ELSE IF again.raised THEN Raise("OSError", again.file, 0)
                          ELSE Return(split_len(str(again.chunk), StrSpace), again.file, 0)
               ELSE IF decode_raises(r.chunk, self.encoding)
                 THEN Raise("UnboundLocalError", r.file, 1)
               ELSE Return(split_len(decode(r.chunk, self.encoding, "ignore"), StrSpace),
                           r.file, 0)
      ELSE LET d == read_chunks(f, self.buffer_size, <<>>)
           IN  IF d.raised THEN Raise("OSError", d.file, 0)
               ELSE Return(words_loop(0, TRUE, d.chunks, 1), d.file, 0)

\* total += len(text) for the text a decoder.decode call r returned.
counted(total, r) ==
    [raised |-> r.raised, total |-> total + Len(r.text), decoder |-> r.decoder]

\* One iteration of the loop of count_chars: decode the chunk after what the
\* decoder kept back, count what comes out.
char_step(encoding, total, decoder, chunk) ==
    counted(total, decoder_decode(encoding, decoder, chunk, FALSE))

\* total += len(decoder.decode(b'', final = True))
char_flush(encoding, total, decoder) ==
    counted(total, decoder_decode(encoding, decoder, <<>>, TRUE))

\* The "except Exception" clause of the streaming part of count_chars:
\* rewind and return len(file.read()), or 0 when that raises too.
chars_fallback(f) ==
    LET s     == seek0(f)
        again == read(s.file, -1)
    IN  IF s.raised THEN Return(0, s.file, 0)
        ELSE IF again.raised THEN Return(0, again.file, 0)
        ELSE Return(Len(again.chunk), again.file, 0)

\* The end of count_chars after the flush fl: its total, or the except
\* clause when the flush raised.
chars_end(f, fl) ==
    IF fl.raised THEN chars_fallback(f) ELSE Return(fl.total, f, 0)

\* The loop of count_chars and what follows it: read, decode, count; flush
\* and return at the end of the stream; the except clause when the read or
\* the decoder raises.
RECURSIVE chars_loop(_, _, _, _)
RECURSIVE chars_next(_, _, _)
chars_loop(self, f, total, decoder) ==
    LET r == read(f, self.buffer_size)
    IN  IF r.raised THEN chars_fallback(r.file)
        ELSE IF r.chunk = <<>>
          THEN chars_end(r.file, char_flush(self.encoding, total, decoder))
        ELSE chars_next(self, r.file, char_step(self.encoding, total, decoder, r.chunk))

\* After the iteration st on a chunk: the next iteration, or the except
\* clause when the decoder raised.
chars_next(self, f, st) ==
    IF st.raised THEN chars_fallback(f)
    ELSE chars_loop(self, f, st.total, st.decoder)

\* count_chars from "total = 0" on: the incremental decoder over the chunks.
\* A LookupError is printed and the call returns None; any other exception
\* rewinds and returns the number of bytes read then, or 0.
chars_stream(self, f) ==
    IF UnknownEncoding(self.encoding)
      THEN [outcome |-> "None", value |-> 0, totals |-> ZeroTotals, errs |-> 1, file |-> f]
      ELSE chars_loop(self, f, 0, NewDecoder)

\* CCWC.count_chars. With buffer_size 0 the whole input is decoded with
\* errors = 'replace'; a LookupError is printed and control falls through to
\* the streaming part; any other exception rewinds and returns
\* len(str(file.read())).
count_chars(self, f) ==
    IF self.buffer_size = 0
      THEN LET r == read(f, -1)
           IN  IF r.raised
                 THEN LET s == seek0(r.file)
                          again == read(s.file, -1)
                      IN  IF s.raised THEN Raise("OSError", s.file, 0)
                          ELSE IF again.raised THEN Raise("OSError", again.file, 0)
                          ELSE Return(Len(str(again.chunk)), again.file, 0)
               ELSE IF decode_raises(r.chunk, self.encoding)
                 THEN LET t == chars_stream(self, r.file)
                      IN  [t EXCEPT !.errs = @ + 1]
               ELSE Return(Len(decode(r.chunk, self.encoding, "replace")), r.file, 0)
      ELSE chars_stream(self, f)

\* The totals after a chunk, given the word step w and the char step c.
all_counted(totals, chunk, w, c) ==
    [raised |-> c.raised,
     totals |-> [lines |-> totals.lines + count(chunk, 10),
                 bytes |-> totals.bytes + Len(chunk),
                 words |-> w.total,
                 chars |-> c.total],
     last_char_was_space |-> w.last_char_was_space,
     decoder |-> c.decoder]

\* One iteration of the loop of count_all; raised when the decoder raises.
all_step(encoding, totals, last_char_was_space, decoder, chunk) ==
    all_counted(totals, chunk,
                word_step(totals.words, last_char_was_space, chunk),
                char_step(encoding, totals.chars, decoder, chunk))

\* The end of count_all after the flush fl,
\* totals['chars'] += len(decoder.decode(b'', final = True)): the totals,
\* or the UnicodeError of the flush.
all_end(f, totals, fl) ==
    IF fl.raised THEN Raise("UnicodeError", f, 0)
    ELSE ReturnTotals([totals EXCEPT !.chars = fl.total], f)

\* The loop of count_all and what follows it; an OSError of a read and a
\* UnicodeError of the decoder leave the call.
RECURSIVE all_loop(_, _, _, _, _)
RECURSIVE all_next(_, _, _)
all_loop(self, f, totals, last_char_was_space, decoder) ==
    LET r == read(f, self.buffer_size)
    IN  IF r.raised THEN Raise("OSError", r.file, 0)
        ELSE IF r.chunk = <<>>
          THEN all_end(r.file, totals, char_flush(self.encoding, totals.chars, decoder))
        ELSE all_next(self, r.file,
                      all_step(self.encoding, totals, last_char_was_space, decoder, r.chunk))

\* After the iteration st on a chunk: the next iteration, or the
\* UnicodeError of the decoder.
all_next(self, f, st) ==
    IF st.raised THEN Raise("UnicodeError", f, 0)
    ELSE all_loop(self, f, st.totals, st.last_char_was_space, st.decoder)

\* count_all with buffer_size 0: everything from one file.read(). (The two
\* "except Exception" clauses are not reached: decoding with errors =
\* 'ignore' or 'replace' under a known encoding does not raise.)
all_whole(encoding, content) ==
    [lines |-> count(content, 10),
     bytes |-> Len(content),
     words |-> split_len(decode(content, encoding, "ignore"), StrSpace),
     chars |-> Len(decode(content, encoding, "replace"))]

\* CCWC.count_all: an unknown encoding is printed and ends the process;
\* an OSError of a read leaves the call.
count_all(self, f) ==
    IF UnknownEncoding(self.encoding) THEN Raise("SystemExit", f, 1)
    ELSE IF self.buffer_size = 0
      THEN LET r == read(f, -1)
           IN  IF r.raised THEN Raise("OSError", r.file, 0)
               ELSE ReturnTotals(all_whole(self.encoding, r.chunk), r.file)
      ELSE all_loop(self, f, ZeroTotals, TRUE, NewDecoder)

\* tool_map[metric](f): the dedicated counter of a metric.
tool_map(metric, self, f) ==
    CASE metric = "lines" -> count_lines(self, f)
      [] metric = "words" -> count_words(self, f)
      [] metric = "chars" -> count_chars(self, f)
      [] metric = "bytes" -> count_bytes(self, f)

\* ------------------------------------------------------------------ inputs
\* The bytes inputs are generated from: "\n", " ", "a", the continuation
\* byte 0x81, the lead byte 0xC2 of a two-byte character (0xC2 0x81 is
\* U+0081) and the lead byte 0xE3 of a three-byte one (0xE3 0x81 0x81 is
\* U+3041).
Alphabet == {10, 32, 97, 129, 194, 227}

RECURSIVE SeqsUpTo(_, _)
SeqsUpTo(A, n) ==
    IF n = 0 THEN {<<>>}
    ELSE LET S == SeqsUpTo(A, n - 1) IN S \cup {Append(x, a) : x \in S, a \in A}

\* "hello world", "foo bar\nbaz\n", "a\nb\nc\n" and five lines.
HelloWorld == <<104, 101, 108, 108, 111, 32, 119, 111, 114, 108, 100>>
FooBarBaz == <<102, 111, 111, 32, 98, 97, 114, 10, 98, 97, 122, 10>>
ThreeLines == <<97, 10, 98, 10, 99, 10>>
FiveLines == <<49, 10, 50, 10, 51, 10, 52, 10, 53, 10>>

\* Inputs with bytes outside the alphabet: a lone 0xFF, "a\x1cb" (a file
\* separator, whitespace to str but not to bytes), "a b\tc", "a\xc2\xa0b"
\* (a no-break space), "a\xe2\x82\xacb" (a euro sign), a truncated euro;
\* and UTF-16 text: "a\n" after a little-endian and after a big-endian
\* byte order mark, and U+1F600 as a surrogate pair after a BOM.
Samples ==
    {HelloWorld, FooBarBaz, ThreeLines, <<255>>, <<97, 28, 98>>, <<97, 32, 98, 9, 99>>,
     <<97, 194, 160, 98>>, <<97, 226, 130, 172, 98>>, <<32, 226, 130>>,
     <<255, 254, 97, 0, 10, 0>>, <<254, 255, 0, 97, 0, 10>>,
     <<255, 254, 61, 216, 0, 222>>}

Inputs == SeqsUpTo(Alphabet, MaxLen) \cup Samples

\* The inputs read under an injected read fault.
FaultInputs == {<<97>>, <<97, 10>>, ThreeLines, <<97, 226, 130, 172, 98>>}

ChunkSizes == {0, 7, 4096} \cup (1..MaxChunk)

Encodings == KnownEncodings \cup {"bogus"}

FreshFiles ==
    {File(d, k, 0, FALSE) : d \in Inputs, k \in FileKinds}
      \cup {File(d, k, n, st) : d \in FaultInputs, k \in FileKinds,
                               n \in 1..MaxFail, st \in BOOLEAN}

\* The stream as it was before the operation touched it.
Fresh(f) == [f EXCEPT !.pos = 0, !.reads = 0]

\* ------------------------------------------------------------------- state
\* One operation of the engine on one stream:
\*   self                 the CCWC object (buffer_size, encoding)
\*   file                 the stream the operation reads
\*   op, pc               the method called, and where it is: "ready" before
\*                        the call, "loop" between two chunks, "done" after
\*   total, totals, last_char_was_space, decoder   the locals of the loops
\*                        (decoder: the bytes the incremental decoder holds
\*                        and the byte order it has settled on)
\*   result               how the call ended
\* The application, produce_count_result under main:
\*   args                 the parsed command line
\*   idx                  how many of the file names the loop has handled
\*   total_counter        the running totals
\*   stdout               the lines printed so far
\*   apc, exit_code       "loop", or "exited" with the process's exit code
VARIABLES self, file, op, pc, total, totals, last_char_was_space, decoder, result,
          args, idx, total_counter, stdout, apc, exit_code

engine_vars == <<self, file, op, pc, total, totals, last_char_was_space, decoder, result>>
app_vars == <<args, idx, total_counter, stdout, apc, exit_code>>
vars == <<self, file, op, pc, total, totals, last_char_was_space, decoder, result,
          args, idx, total_counter, stdout, apc, exit_code>>

Pending == [outcome |-> "pending", value |-> 0, totals |-> ZeroTotals, errs |-> 0,
            file |-> File(<<>>, "regular", 0, FALSE)]

NoArgs == [lines |-> FALSE, words |-> FALSE, chars |-> FALSE, bytes |-> FALSE,
           buffer_size |-> DEFAULT_BUFFER_SIZE, encoding |-> "utf-8", filenames |-> <<>>]

EngineIdle ==
    /\ self = CCWC(DEFAULT_BUFFER_SIZE, "utf-8")
    /\ file = File(<<>>, "regular", 0, FALSE)
    /\ op = "none" /\ pc = "off"
    /\ total = 0 /\ totals = ZeroTotals /\ last_char_was_space = TRUE
    /\ decoder = NewDecoder /\ result = Pending

AppIdle ==
    /\ args = NoArgs /\ idx = 0 /\ total_counter = ZeroTotals
    /\ stdout = <<>> /\ apc = "off" /\ exit_code = 0

\* ------------------------------------------------- the engine, step by step
Init ==
    /\ self \in {CCWC(bs, enc) : bs \in ChunkSizes, enc \in Encodings}
    /\ file \in FreshFiles
    /\ op = "none" /\ pc = "ready"
    /\ total = 0 /\ totals = ZeroTotals /\ last_char_was_space = TRUE
    /\ decoder = NewDecoder /\ result = Pending
    /\ AppIdle

\* tool.count_bytes(f)
call_count_bytes ==
    /\ pc = "ready"
    /\ op' = "count_bytes" /\ pc' = "done"
    /\ result' = count_bytes(self, file)
    /\ file' = result'.file
    /\ UNCHANGED <<self, total, totals, last_char_was_space, decoder>>
    /\ UNCHANGED app_vars

\* tool.count_lines(f)
call_count_lines ==
    /\ pc = "ready"
    /\ op' = "count_lines" /\ pc' = "done"
    /\ result' = count_lines(self, file)
    /\ file' = result'.file
    /\ UNCHANGED <<self, total, totals, last_char_was_space, decoder>>
    /\ UNCHANGED app_vars

\* tool.count_words(f): the whole call when buffer_size is 0, else up to the
\* head of the loop.
call_count_words ==
    /\ pc = "ready"
    /\ op' = "count_words"
    /\ IF self.buffer_size = 0
         THEN /\ pc' = "done"
              /\ result' = count_words(self, file)
              /\ file' = result'.file
              /\ UNCHANGED <<total, last_char_was_space>>
         ELSE /\ pc' = "loop"
              /\ total' = 0
              /\ last_char_was_space' = TRUE
              /\ UNCHANGED <<result, file>>
    /\ UNCHANGED <<self, totals, decoder>>
    /\ UNCHANGED app_vars

\* One pass through "for chunk in self._read_chunks(file)" of count_words.
count_words_iter ==
    /\ pc = "loop" /\ op = "count_words"
    /\ LET r == read(file, self.buffer_size)
       IN  /\ file' = r.file
           /\ IF r.raised
                THEN /\ pc' = "done"
                     /\ result' = Raise("OSError", r.file, 0)
                     /\ UNCHANGED <<total, last_char_was_space>>
                ELSE IF r.chunk = <<>>
                  THEN /\ pc' = "done"
                       /\ result' = Return(total, r.file, 0)
                       /\ UNCHANGED <<total, last_char_was_space>>
                  ELSE LET st == word_step(total, last_char_was_space, r.chunk)
                       IN  /\ total' = st.total
                           /\ last_char_was_space' = st.last_char_was_space
                           /\ UNCHANGED <<pc, result>>
    /\ UNCHANGED <<self, op, totals, decoder>>
    /\ UNCHANGED app_vars

\* tool.count_chars(f): the whole call when buffer_size is 0 or the decoder
\* cannot be made, else up to the head of the loop.
call_count_chars ==
    /\ pc = "ready"
    /\ op' = "count_chars"
    /\ IF self.buffer_size = 0 \/ UnknownEncoding(self.encoding)
         THEN /\ pc' = "done"
              /\ result' = count_chars(self, file)
              /\ file' = result'.file
              /\ UNCHANGED <<total, decoder>>
         ELSE /\ pc' = "loop"
              /\ total' = 0
              /\ decoder' = NewDecoder
              /\ UNCHANGED <<result, file>>
    /\ UNCHANGED <<self, totals, last_char_was_space>>
    /\ UNCHANGED app_vars

\* The body of the loop of count_chars on a chunk, st its char_step: the
\* locals updated, or the except clause when the decoder raised.
count_chars_step(f, st) ==
    IF st.raised
      THEN /\ pc' = "done"
           /\ result' = chars_fallback(f)
           /\ file' = result'.file
           /\ UNCHANGED <<total, decoder>>
      ELSE /\ total' = st.total
           /\ decoder' = st.decoder
           /\ file' = f
           /\ UNCHANGED <<pc, result>>

\* One pass through the loop of count_chars; the final flush when the
\* stream ends, the except clause when the read or the decoder raises.
count_chars_iter ==
    /\ pc = "loop" /\ op = "count_chars"
    /\ LET r == read(file, self.buffer_size)
       IN  IF r.raised \/ r.chunk = <<>>
             THEN /\ pc' = "done"
                  /\ result' = IF r.raised THEN chars_fallback(r.file)
                                ELSE chars_end(r.file,
                                               char_flush(self.encoding, total, decoder))
                  /\ file' = result'.file
                  /\ UNCHANGED <<total, decoder>>
             ELSE count_chars_step(r.file,
                                   char_step(self.encoding, total, decoder, r.chunk))
    /\ UNCHANGED <<self, op, totals, last_char_was_space>>
    /\ UNCHANGED app_vars

\* tool.count_all(f): the whole call when buffer_size is 0 or the decoder
\* cannot be made, else up to the head of the loop.
call_count_all ==
    /\ pc = "ready"
    /\ op' = "count_all"
    /\ IF self.buffer_size = 0 \/ UnknownEncoding(self.encoding)
         THEN /\ pc' = "done"
              /\ result' = count_all(self, file)
              /\ file' = result'.file
              /\ UNCHANGED <<totals, last_char_was_space, decoder>>
         ELSE /\ pc' = "loop"
              /\ totals' = ZeroTotals
              /\ last_char_was_space' = TRUE
              /\ decoder' = NewDecoder
              /\ UNCHANGED <<result, file>>
    /\ UNCHANGED <<self, total>>
    /\ UNCHANGED app_vars

\* The body of the loop of count_all on a chunk, st its all_step: the
\* locals updated, or the UnicodeError of the decoder.
count_all_step(f, st) ==
    IF st.raised
      THEN /\ pc' = "done"
           /\ result' = Raise("UnicodeError", f, 0)
           /\ UNCHANGED <<totals, last_char_was_space, decoder>>
      ELSE /\ totals' = st.totals
           /\ last_char_was_space' = st.last_char_was_space
           /\ decoder' = st.decoder
           /\ UNCHANGED <<pc, result>>

\* One pass through the loop of count_all; the final flush when the stream
\* ends, the exception of a read or of the decoder.
count_all_iter ==
    /\ pc = "loop" /\ op = "count_all"
    /\ LET r == read(file, self.buffer_size)
       IN  /\ file' = r.file
           /\ IF r.raised \/ r.chunk = <<>>
                THEN /\ pc' = "done"
                     /\ result' = IF r.raised THEN Raise("OSError", r.file, 0)
                                   ELSE all_end(r.file, totals,
                                                char_flush(self.encoding, totals.chars,
                                                           decoder))
                     /\ UNCHANGED <<totals, last_char_was_space, decoder>>
                ELSE count_all_step(r.file,
                                    all_step(self.encoding, totals, last_char_was_space,
                                             decoder, r.chunk))
    /\ UNCHANGED <<self, op, total>>
    /\ UNCHANGED app_vars

Next ==
    \/ call_count_bytes
    \/ call_count_lines
    \/ call_count_words
    \/ count_words_iter
    \/ call_count_chars
    \/ count_chars_iter
    \/ call_count_all
    \/ count_all_iter

Spec == Init /\ [][Next]_vars

\* The method as one call on the untouched stream.
Call(o, s, f) ==
    CASE o = "count_bytes" -> count_bytes(s, f)
      [] o = "count_lines" -> count_lines(s, f)
      [] o = "count_words" -> count_words(s, f)
      [] o = "count_chars" -> count_chars(s, f)
      [] o = "count_all"   -> count_all(s, f)

\* The loops taken one chunk at a time end as the calls taken whole do.
StepwiseAgrees == pc = "done" => result = Call(op, self, Fresh(file))

\* ------------------------------------------------ properties of the engine
\* The bytes the loop has consumed so far.
Consumed == SubSeq(file.data, 1, file.pos)

\* The number of maximal runs of non-whitespace bytes in s.
Runs(s) ==
    Cardinality({i \in 1..Len(s) :
                   s[i] \notin ByteSpace /\ (i = 1 \/ s[i - 1] \in ByteSpace)})

\* The running word total of the loop in progress.
RunningWords == IF op = "count_words" THEN total ELSE totals.words

Metrics == {"lines", "words", "chars", "bytes"}

\* C1. count_words returns the same word count for every chunk size: when a
\* call on an input (read without fault, under a known encoding) has
\* returned, the call with any other buffer_size, 0 included, on a fresh copy
\* of the input returns the same number.
C1_WordsSameForEveryChunkSize ==
    (pc = "done" /\ op = "count_words" /\ file.failAt = 0
       /\ self.encoding \in KnownEncodings)
    => \A bs \in ChunkSizes :
         LET other == count_words(CCWC(bs, self.encoding), Fresh(file))
         IN  /\ result.outcome = "return"
             /\ other.outcome = "return"
             /\ other.value = result.value

\* count_all, once returned, agrees with each dedicated counter run on a
\* fresh copy of the input under the same configuration, on every metric of
\* every subset of two or more metrics.
AllAgreesWithDedicated ==
    /\ result.outcome = "return"
    /\ \A S \in SUBSET Metrics :
         Cardinality(S) >= 2 =>
           \A m \in S :
             LET d == tool_map(m, self, Fresh(file))
             IN  d.outcome = "return" /\ d.value = result.totals[m]

\* C2. For any input, any chunk size, any encoding the codec registry
\* knows and any subset of two or more metrics, count_all projected to the
\* subset equals the dedicated counters run independently on a fresh copy
\* of the input under the same configuration. (An unknown encoding, the
\* other half of "any configuration", is the matter of C6.)
C2_AllEqualsDedicated ==
    (pc = "done" /\ op = "count_all" /\ file.failAt = 0
       /\ self.encoding \in KnownEncodings)
    => AllAgreesWithDedicated

\* Where count_all and the dedicated counters do agree: under utf-8 and
\* latin-1, whose incremental decoders never raise, on every input and
\* chunk size.
AllEqualsDedicated_Utf8Latin1 ==
    (pc = "done" /\ op = "count_all" /\ file.failAt = 0
       /\ self.encoding \in {"utf-8", "latin-1"})
    => AllAgreesWithDedicated

\* C3. Under utf-8, count_chars with a chunk size that splits a multi-byte
\* character returns what count_chars with chunk size 0 returns; between two chunks
\* the decoder holds exactly the bytes of the consumed input that do not yet
\* make a character, and the running total is the number of characters
\* before them.
C3_CharsSplitAcrossChunks ==
    /\ (pc = "done" /\ op = "count_chars" /\ file.failAt = 0
          /\ self.encoding = "utf-8")
       => /\ result.outcome = "return"
          /\ result.value = count_chars(CCWC(0, self.encoding), Fresh(file)).value
    /\ (pc = "loop" /\ op = "count_chars" /\ self.encoding = "utf-8")
       => LET whole == utf_8_decode(Consumed, "replace", FALSE)
          IN  /\ total = Len(whole.text)
              /\ decoder.buffer = SubSeq(Consumed, whole.consumed + 1, Len(Consumed))
              /\ Len(decoder.buffer) < 4

\* The three bytes of U+3041 arrived as two bytes and one, and count_chars
\* returned 1.
C3_Witness ==
    /\ pc = "done" /\ op = "count_chars"
    /\ self = CCWC(2, "utf-8")
    /\ file.data = <<227, 129, 129>> /\ file.failAt = 0
    /\ result.outcome = "return" /\ result.value = 1

\* C4. For an input of N bytes read without fault, count_bytes returns N,
\* for every chunk size and on each path: st_size of a regular file, the
\* stream of a pipe, the stream after a failed metadata lookup.
C4_BytesIsLength ==
    (pc = "done" /\ op = "count_bytes" /\ file.failAt = 0)
    => result.outcome = "return" /\ result.value = Len(file.data)

\* count_bytes returned 3 for three bytes read one at a time after the
\* metadata lookup failed.
C4_Witness ==
    /\ pc = "done" /\ op = "count_bytes"
    /\ self.buffer_size = 1
    /\ file.kind = "nostat" /\ file.failAt = 0 /\ Len(file.data) = 3
    /\ result.outcome = "return" /\ result.value = 3

\* C7. A read that raises in the middle of a stream leaves every counter as
\* an I/O error: once the faulty read has been made, the call ends with
\* OSError and returns no count.
C7_ReadFailurePropagates ==
    (pc = "done" /\ file.failAt > 0 /\ file.reads >= file.failAt)
    => result.outcome = "OSError"

\* C10. Between two chunks of the loop of count_words and of count_all, the
\* running word total is the number of maximal runs of non-whitespace bytes
\* in the input consumed so far and last_char_was_space tells whether that
\* input is empty or ends in whitespace; so the total is never negative, and
\* it never decreases from one chunk to the next.
C10_WordLoopInvariant ==
    /\ [](  (pc = "loop" /\ op \in {"count_words", "count_all"})
          => /\ RunningWords = Runs(Consumed)
             /\ RunningWords >= 0
             /\ last_char_was_space
                  <=> (file.pos = 0 \/ file.data[file.pos] \in ByteSpace))
    /\ [][ (pc = "loop" /\ pc' = "loop" /\ op \in {"count_words", "count_all"})
           => RunningWords' >= RunningWords ]_vars

\* The loop of count_words stands after a chunk of whitespace only that
\* followed a word: one word counted, the boundary state set.
C10_Witness ==
    /\ pc = "loop" /\ op = "count_words"
    /\ self.buffer_size = 1
    /\ file.data = <<97, 10, 97>> /\ file.pos = 2
    /\ total = 1 /\ last_char_was_space

\* --------------------------------------------------------- the application
\* The name the loop uses for standard input (filenames = [None]).
None == "<stdin>"

\* What open(filename, 'rb') finds. "flaky" opens, and its first read raises
\* OSError once.
Names == {"A", "B", "foo", "flaky", "missing", "locked"}

open(filename) ==
    CASE filename = "A"       -> [status |-> "ok", file |-> File(ThreeLines, "regular", 0, FALSE)]
      [] filename = "B"       -> [status |-> "ok", file |-> File(FiveLines, "regular", 0, FALSE)]
      [] filename = "foo"     -> [status |-> "ok", file |-> File(FooBarBaz, "regular", 0, FALSE)]
      [] filename = "flaky"   -> [status |-> "ok", file |-> File(ThreeLines, "regular", 1, FALSE)]
      [] filename = "missing" -> [status |-> "FileNotFoundError", file |-> File(<<>>, "regular", 0, FALSE)]
      [] filename = "locked"  -> [status |-> "PermissionError", file |-> File(<<>>, "regular", 0, FALSE)]

\* sys.stdin.buffer: a pipe carrying "hello world".
stdin == File(HelloWorld, "pipe", 0, FALSE)

\* get_stream(filename): the stream the with-block yields.
get_stream(filename) ==
    IF filename = None THEN [status |-> "ok", file |-> stdin] ELSE open(filename)

\* request_commands with every metric when no flag is given.
request_commands_all_four(a) ==
    LET req == (IF a.lines THEN <<"lines">> ELSE <<>>)
                 \o (IF a.words THEN <<"words">> ELSE <<>>)
                 \o (IF a.chars THEN <<"chars">> ELSE <<>>)
                 \o (IF a.bytes THEN <<"bytes">> ELSE <<>>)
    IN  IF req = <<>> THEN <<"lines", "words", "chars", "bytes">> ELSE req

\* request_commands: the flags in the order lines, words, chars, bytes;
\* lines, words, bytes when no flag is given.
request_commands(a) ==
    LET req == (IF a.lines THEN <<"lines">> ELSE <<>>)
                 \o (IF a.words THEN <<"words">> ELSE <<>>)
                 \o (IF a.chars THEN <<"chars">> ELSE <<>>)
                 \o (IF a.bytes THEN <<"bytes">> ELSE <<>>)
    IN  IF req = <<>> THEN <<"lines", "words", "bytes">> ELSE req

\* filenames = args.filenames if args.filenames else [None]
filenames(a) == IF a.filenames = <<>> THEN <<None>> ELSE a.filenames

\* The lines of output. A count line carries the printed numbers (none when
\* the text printed is "None"), a total line the totals, an error line its
\* message.
CountLine(vals, filename) ==
    [type |-> "count", name |-> filename, vals |-> vals, text |-> ""]
NoneLine(filename) ==
    [type |-> "count", name |-> filename, vals |-> <<>>, text |-> "None"]
TotalLine(vals) ==
    [type |-> "total", name |-> "total", vals |-> vals, text |-> ""]
ErrorLine(text, filename) ==
    [type |-> "error", name |-> filename, vals |-> <<>>, text |-> text]

\* The "Unknown encoding" messages a counter printed.
RECURSIVE EncodingErrors(_, _)
EncodingErrors(n, filename) ==
    IF n = 0 THEN <<>>
    ELSE <<ErrorLine("Unknown encoding", filename)>> \o EncodingErrors(n - 1, filename)

Project(t, req) == [j \in 1..Len(req) |-> t[req[j]]]

AppChunkSizes == {0, 1, 7, DEFAULT_BUFFER_SIZE}

InitApp ==
    /\ EngineIdle
    /\ args \in {[lines |-> l, words |-> w, chars |-> c, bytes |-> b,
                   buffer_size |-> bs, encoding |-> enc, filenames |-> fn] :
                    l \in BOOLEAN, w \in BOOLEAN, c \in BOOLEAN, b \in BOOLEAN,
                    bs \in AppChunkSizes, enc \in Encodings,
                    fn \in SeqsUpTo(Names, MaxFiles)}
    /\ idx = 0 /\ total_counter = ZeroTotals /\ stdout = <<>>
    /\ apc = "loop" /\ exit_code = 0

\* The file name the loop is at, and the tool made from the arguments.
filename == filenames(args)[idx + 1]
tool == CCWC(args.buffer_size, args.encoding)

\* An iteration whose open() raises: get_stream prints and calls
\* sys.exit(1), which no "except Exception" catches.
open_fails ==
    /\ apc = "loop" /\ idx < Len(filenames(args))
    /\ get_stream(filename).status # "ok"
    /\ stdout' = Append(stdout, ErrorLine(get_stream(filename).status, filename))
    /\ apc' = "exited" /\ exit_code' = 1
    /\ UNCHANGED <<args, idx, total_counter>>
    /\ UNCHANGED engine_vars

\* An iteration with more than one metric requested: count_all, the totals,
\* the line; "except Exception" prints and goes on to the next file;
\* SystemExit ends the process; standard input returns after its line.
count_multi ==
    /\ apc = "loop" /\ idx < Len(filenames(args))
    /\ get_stream(filename).status = "ok"
    /\ Len(request_commands(args)) > 1
    /\ LET r == count_all(tool, get_stream(filename).file)
       IN  IF r.outcome = "SystemExit"
             THEN /\ stdout' = stdout \o EncodingErrors(r.errs, filename)
                  /\ apc' = "exited" /\ exit_code' = 1
                  /\ UNCHANGED <<idx, total_counter>>
           ELSE IF r.outcome = "return"
             THEN /\ total_counter' = [m \in Metrics |-> total_counter[m] + r.totals[m]]
                  /\ stdout' = Append(stdout, CountLine(Project(r.totals, request_commands(args)),
                                                        filename))
                  /\ IF filename = None
                       THEN apc' = "exited" /\ exit_code' = 0 /\ UNCHANGED idx
                       ELSE idx' = idx + 1 /\ UNCHANGED <<apc, exit_code>>
           ELSE /\ stdout' = Append(stdout, ErrorLine("Error during processing file", filename))
                /\ idx' = idx + 1
                /\ UNCHANGED <<total_counter, apc, exit_code>>
    /\ UNCHANGED args
    /\ UNCHANGED engine_vars

\* An iteration with one metric requested: the dedicated counter, the line,
\* the total. A result of None is printed, and adding it to the total raises
\* TypeError, which "except Exception" prints like any exception of the
\* counter.
count_single ==
    /\ apc = "loop" /\ idx < Len(filenames(args))
    /\ get_stream(filename).status = "ok"
    /\ Len(request_commands(args)) = 1
    /\ LET metric  == request_commands(args)[1]
           r       == tool_map(metric, tool, get_stream(filename).file)
           printed == stdout \o EncodingErrors(r.errs, filename)
       IN  IF r.outcome = "return"
             THEN /\ stdout' = Append(printed, CountLine(<<r.value>>, filename))
                  /\ IF filename = None
                       THEN /\ apc' = "exited" /\ exit_code' = 0
                            /\ UNCHANGED <<idx, total_counter>>
                       ELSE /\ total_counter' = [total_counter EXCEPT ![metric] = @ + r.value]
                            /\ idx' = idx + 1
                            /\ UNCHANGED <<apc, exit_code>>
           ELSE IF r.outcome = "None"
             THEN IF filename = None
                    THEN /\ stdout' = Append(printed, NoneLine(filename))
                         /\ apc' = "exited" /\ exit_code' = 0
                         /\ UNCHANGED <<idx, total_counter>>
                    ELSE /\ stdout' = printed \o <<NoneLine(filename),
                                                   ErrorLine("Error during processing file", filename)>>
                         /\ idx' = idx + 1
                         /\ UNCHANGED <<total_counter, apc, exit_code>>
           ELSE /\ stdout' = Append(printed, ErrorLine("Error during processing file", filename))
                /\ idx' = idx + 1
                /\ UNCHANGED <<total_counter, apc, exit_code>>
    /\ UNCHANGED args
    /\ UNCHANGED engine_vars

\* After the loop: the total line when more than one file name was given;
\* main returns and the process exits with 0.
print_total ==
    /\ apc = "loop" /\ idx = Len(filenames(args))
    /\ stdout' = IF Len(filenames(args)) > 1
                   THEN Append(stdout, TotalLine(Project(total_counter, request_commands(args))))
                   ELSE stdout
    /\ apc' = "exited" /\ exit_code' = 0
    /\ UNCHANGED <<args, idx, total_counter>>
    /\ UNCHANGED engine_vars

NextApp ==
    \/ open_fails
    \/ count_multi
    \/ count_single
    \/ print_total

SpecApp == InitApp /\ [][NextApp]_vars

\* ------------------------------------------- properties of the application
Openable(name) == get_stream(name).status = "ok"

CountLines == {j \in 1..Len(stdout) : stdout[j].type = "count"}
TotalLines == {j \in 1..Len(stdout) : stdout[j].type = "total"}
OpenErrors ==
    {j \in 1..Len(stdout) : stdout[j].text \in {"FileNotFoundError", "PermissionError"}}
EncodingErrorLines == {j \in 1..Len(stdout) : stdout[j].text = "Unknown encoding"}

\* The number printed in column k of line j; nothing counts as 0.
Printed(j, k) == IF k <= Len(stdout[j].vals) THEN stdout[j].vals[k] ELSE 0

RECURSIVE SumColumn(_, _)
SumColumn(J, k) ==
    IF J = {} THEN 0
    ELSE LET j == CHOOSE x \in J : TRUE IN Printed(j, k) + SumColumn(J \ {j}, k)

NoFlags == ~args.lines /\ ~args.words /\ ~args.chars /\ ~args.bytes

\* C5. When a file of a batch of several cannot be opened and the failure
\* has been reported, the batch continues: by the end of the run every file
\* of the list that can be opened has its line (or its processing error),
\* and the total line is printed.
C5_OpenFailureSkipsTheFile ==
    (apc = "exited" /\ Len(args.filenames) > 1 /\ OpenErrors # {})
    => /\ \A k \in 1..Len(args.filenames) :
            Openable(args.filenames[k])
              => \E j \in 1..Len(stdout) : stdout[j].name = args.filenames[k]
       /\ TotalLines # {}

\* C6. When a counting operation found the configured encoding unknown, by
\* the end of the run the error was reported once, nothing was printed after
\* it (no count for that input, no further input), and the exit code is 1.
C6_UnknownEncodingIsFatal ==
    (apc = "exited" /\ EncodingErrorLines # {})
    => /\ Cardinality(EncodingErrorLines) = 1
       /\ \A j \in EncodingErrorLines : j = Len(stdout)
       /\ exit_code = 1

\* C8. At the end of a run under a known encoding: with more than one file
\* name there is exactly one total line, it is the last line, and each of
\* its numbers is the sum of that column over the per-file lines; with one
\* file name or standard input there is no total line.
C8_TotalLineSumsTheFiles ==
    (apc = "exited" /\ args.encoding \in KnownEncodings)
    => IF Len(args.filenames) > 1
         THEN /\ TotalLines = {Len(stdout)}
              /\ \A k \in 1..Len(request_commands(args)) :
                    Printed(Len(stdout), k) = SumColumn(CountLines, k)
         ELSE TotalLines = {}

\* What C8 says of the runs in which every file opens: checked to see that
\* only the exit on a failed open stands between the code and C8.
TotalLineWhenAllOpen ==
    (apc = "exited" /\ args.encoding \in KnownEncodings
       /\ \A k \in 1..Len(args.filenames) : Openable(args.filenames[k]))
    => IF Len(args.filenames) > 1
         THEN /\ TotalLines = {Len(stdout)}
              /\ \A k \in 1..Len(request_commands(args)) :
                    Printed(Len(stdout), k) = SumColumn(CountLines, k)
         ELSE TotalLines = {}

\* C9. With no metric flag, every per-file line holds exactly three numbers,
\* the input's newline count, its word count and its byte length in that
\* order, and the line of "foo bar\nbaz\n" under the default encoding is
\* 2 3 12.
C9_DefaultIsLinesWordsBytes ==
    NoFlags
    => \A j \in CountLines :
         LET f == get_stream(stdout[j].name).file
         IN  /\ stdout[j].vals = <<count(f.data, 10), count_words(tool, f).value, Len(f.data)>>
             /\ (f.data = FooBarBaz /\ args.encoding = "utf-8")
                  => stdout[j].vals = <<2, 3, 12>>

\* ccwc foo, no flag, has printed " 2 3 12 foo".
C9_Witness ==
    /\ NoFlags /\ args.encoding = "utf-8"
    /\ \E j \in CountLines : stdout[j].name = "foo" /\ stdout[j].vals = <<2, 3, 12>>

====
